---- MODULE Spec2Model ----
(***************************************************************************)
(* A model of piltextbox: the format-code parser (formatparser.py), the    *)
(* line packer TextBox._wrap_text_TESTING, the line writers                *)
(* TextBox.write_line / _write_pline / _write_fline and the paragraph      *)
(* writer TextBox.write_paragraph with its UnwrittenLines queue.           *)
(*                                                                         *)
(* A Python string is a sequence of symbols.  A format code ('<b>',        *)
(* '</b>', '<i>', '</i>') is one symbol; the letters of the model never    *)
(* combine into a format code.  PIL's textsize() is the measurement        *)
(* collaborator: the width of a string is the sum of the widths of its     *)
(* symbols in the font used.                                               *)
(***************************************************************************)
EXTENDS Integers, Sequences, FiniteSets, TLC

VARIABLES text, cfg, pc, parsed, unwritten, cursors, drawn, ret, ncalls

vars == <<text, cfg, pc, parsed, unwritten, cursors, drawn, ret, ncalls>>

\* Python's None is the empty tuple; a value that may be None is held in a
\* one-element tuple.
None == <<>>

Some(v) == <<v>>

(***************************************************************************)
(* Bounds of the model.                                                    *)
(***************************************************************************)
MaxParseLen == 5

MaxShortLen == 3

MaxWrapLen == 4

MaxPlainLen == 7

MaxLineLen == 5

MaxLineCalls == 2

MaxWords == 3

MaxCalls == 3

MaxCursorOps == 2
MaxFontCalls == 2
MaxLiveWords == 2
MaxStageOps == 3

(***************************************************************************)
(* Symbols.                                                                *)
(***************************************************************************)
Letters == {"x", "q"}

format_codes == {"<b>", "</b>", "<i>", "</i>"}

SeqsUpTo(S, n) == UNION {[1..k -> S] : k \in 0..n}

(***************************************************************************)
(* Python string helpers.                                                  *)
(***************************************************************************)
startswith(s, c) == Len(s) > 0 /\ s[1] = c

endswith(s, c) == Len(s) > 0 /\ s[Len(s)] = c

startswith_any(s, cs) == Len(s) > 0 /\ s[1] \in cs

endswith_any(s, cs) == Len(s) > 0 /\ s[Len(s)] \in cs

Front(s) == SubSeq(s, 1, Len(s) - 1)

RECURSIVE lstrip(_, _)
lstrip(s, cs) == IF startswith_any(s, cs) THEN lstrip(Tail(s), cs) ELSE s

RECURSIVE rstrip(_, _)
rstrip(s, cs) == IF endswith_any(s, cs) THEN rstrip(Front(s), cs) ELSE s

strip(s, cs) == rstrip(lstrip(s, cs), cs)

replace(s, a, b) == [i \in 1..Len(s) |-> IF s[i] = a THEN b ELSE s[i]]

RECURSIVE split_from(_, _, _, _)
split_from(s, sep, cur, acc) ==
    IF s = <<>> THEN Append(acc, cur)
    ELSE IF Head(s) = sep THEN split_from(Tail(s), sep, <<>>, Append(acc, cur))
    ELSE split_from(Tail(s), sep, Append(cur, Head(s)), acc)

split(s, sep) == split_from(s, sep, <<>>, <<>>)

(***************************************************************************)
(* formatparser.py                                                         *)
(***************************************************************************)
FWord(txt, bold, ital, xspace, is_indent) ==
    [txt |-> txt, bold |-> bold, ital |-> ital, xspace |-> xspace,
     is_indent |-> is_indent]

\* text.strip('\r\n'); text.replace('\r', '\n'); text.replace('\n', ' ');
\* text.split(' ')
raw_words(t) == split(replace(replace(strip(t, {"\r", "\n"}), "\r", "\n"), "\n", " "), " ")

flat_parse(t) ==
    LET rw == raw_words(t)
    IN  [i \in 1..Len(rw) |-> FWord(rw[i], FALSE, FALSE, TRUE, FALSE)]

\* One pass of the four `if txt.startswith(...)` statements.
cull_front_pass(st) ==
    LET s1 == IF startswith(st.txt, "<b>")
              THEN [st EXCEPT !.bold = TRUE, !.txt = Tail(st.txt)] ELSE st
        s2 == IF startswith(s1.txt, "</b>")
              THEN [s1 EXCEPT !.bold = FALSE, !.txt = Tail(s1.txt)] ELSE s1
        s3 == IF startswith(s2.txt, "<i>")
              THEN [s2 EXCEPT !.ital = TRUE, !.txt = Tail(s2.txt)] ELSE s2
        s4 == IF startswith(s3.txt, "</i>")
              THEN [s3 EXCEPT !.ital = FALSE, !.txt = Tail(s3.txt)] ELSE s3
    IN  s4

RECURSIVE cull_front(_)
cull_front(st) ==
    IF ~startswith_any(st.txt, format_codes) THEN st
    ELSE cull_front(cull_front_pass(st))

\* One pass of the four `if txt.endswith(...)` statements.
cull_back_pass(st) ==
    LET s1 == IF endswith(st.txt, "<b>")
              THEN [st EXCEPT !.all_bold = Append(@, TRUE), !.txt = Front(st.txt)]
              ELSE st
        s2 == IF endswith(s1.txt, "</b>")
              THEN [s1 EXCEPT !.all_bold = Append(@, FALSE), !.txt = Front(s1.txt)]
              ELSE s1
        s3 == IF endswith(s2.txt, "<i>")
              THEN [s2 EXCEPT !.all_ital = Append(@, TRUE), !.txt = Front(s2.txt)]
              ELSE s2
        s4 == IF endswith(s3.txt, "</i>")
              THEN [s3 EXCEPT !.all_ital = Append(@, FALSE), !.txt = Front(s3.txt)]
              ELSE s3
    IN  s4

RECURSIVE cull_back(_)
cull_back(st) ==
    IF ~endswith_any(st.txt, format_codes) THEN st
    ELSE cull_back(cull_back_pass(st))

\* A slip: the element collected last (the code closest to the text) is taken.
carry_over_closest(all, cur) == Append(all, cur)[IF all = <<>> THEN 1 ELSE Len(all)]

\* The carry-over value: all_bold.append(bold); bold = all_bold[0]
carry_over(all, cur) == Append(all, cur)[1]

\* A slip: the codes at the back of a word style that word as well.
parse_word_back_applies(acc, word, discard_formatting) ==
    LET f == cull_front([txt |-> word, bold |-> acc.bold, ital |-> acc.ital])
        b == cull_back([txt |-> f.txt, all_bold |-> <<>>, all_ital |-> <<>>])
        nb == carry_over(b.all_bold, f.bold)
        ni == carry_over(b.all_ital, f.ital)
        fw == IF discard_formatting
              THEN FWord(b.txt, FALSE, FALSE, TRUE, FALSE)
              ELSE FWord(b.txt, nb, ni, TRUE, FALSE)
    IN  [fwords |-> IF Len(b.txt) > 0 THEN Append(acc.fwords, fw) ELSE acc.fwords,
         bold |-> nb, ital |-> ni]

\* The body of `for word in raw_words:`; acc = [fwords, bold, ital].
parse_word(acc, word, discard_formatting) ==
    LET f == cull_front([txt |-> word, bold |-> acc.bold, ital |-> acc.ital])
        b == cull_back([txt |-> f.txt, all_bold |-> <<>>, all_ital |-> <<>>])
        fw == IF discard_formatting
              THEN FWord(b.txt, FALSE, FALSE, TRUE, FALSE)
              ELSE FWord(b.txt, f.bold, f.ital, TRUE, FALSE)
    IN  [fwords |-> IF Len(b.txt) > 0 THEN Append(acc.fwords, fw) ELSE acc.fwords,
         bold |-> carry_over(b.all_bold, f.bold),
         ital |-> carry_over(b.all_ital, f.ital)]

RECURSIVE parse_words(_, _, _)
parse_words(acc, rw, discard_formatting) ==
    IF rw = <<>> THEN acc
    ELSE parse_words(parse_word(acc, Head(rw), discard_formatting), Tail(rw),
                     discard_formatting)

format_parse_deep(t, discard_formatting, start_bold, start_ital) ==
    parse_words([fwords |-> <<>>, bold |-> start_bold, ital |-> start_ital],
                raw_words(t), discard_formatting)

format_parse(t, discard_formatting) ==
    format_parse_deep(t, discard_formatting, FALSE, FALSE).fwords

all_parse(t, formatting, discard_formatting) ==
    IF formatting THEN format_parse(t, discard_formatting) ELSE flat_parse(t)

(***************************************************************************)
(* The measurement collaborator (ImageDraw.textsize): widths and heights   *)
(* in px.  The width of a string is the sum of the widths of its symbols;  *)
(* a bold word is drawn in the bold font, which is wider.  The height of   *)
(* a string is that of its tallest symbol ('q' has a descender).           *)
(***************************************************************************)
CharW(c) ==
    CASE c = "x" -> 10
      [] c = "q" -> 7
      [] c = " " -> 5
      [] OTHER   -> 12

BoldExtraW == 1

CharH(c) == IF c = "q" THEN 9 ELSE 8

\* textsize('XT', font=self.font)[1]
text_line_height == 8

RECURSIVE SumW(_)
SumW(s) == IF s = <<>> THEN 0 ELSE CharW(Head(s)) + SumW(Tail(s))

\* textsize(txt, font)[0], the font chosen by the styling of the word.
textsize_w(txt, bold) == SumW(txt) + (IF bold THEN BoldExtraW * Len(txt) ELSE 0)

\* textsize(txt, font)[1]
textsize_h(txt) ==
    IF txt = <<>> THEN 0
    ELSE CHOOSE h \in {CharH(txt[i]) : i \in 1..Len(txt)} :
             \A j \in 1..Len(txt) : CharH(txt[j]) <= h

\* fword_info['space_w']
space_w == textsize_w(<<" ">>, FALSE)

\* fword_info['word_px_dict'][fword]
word_w(fw) == textsize_w(fw.txt, fw.bold)

word_h(fw) == textsize_h(fw.txt)

\* ' ' * n
spaces(n) == [i \in 1..n |-> " "]

Whitespace == {" ", "\n", "\r"}

(***************************************************************************)
(* FLine, PLine, UnwrittenLines                                            *)
(***************************************************************************)
FLine(fwords, justifiable) ==
    [kind |-> "FLine", fwords |-> fwords, justifiable |-> justifiable,
     staged |-> None]

PLine(txt, justifiable) ==
    [kind |-> "PLine", txt |-> txt, justifiable |-> justifiable,
     staged |-> None]

\* FLine.simplify()
RECURSIVE simplify_from(_, _, _)
simplify_from(fwords, i, exclude_indent) ==
    IF i > Len(fwords) THEN <<>>
    ELSE IF exclude_indent /\ fwords[i].is_indent
         THEN simplify_from(fwords, i + 1, exclude_indent)
    ELSE fwords[i].txt
         \o (IF i # Len(fwords) /\ fwords[i].xspace THEN <<" ">> ELSE <<>>)
         \o simplify_from(fwords, i + 1, exclude_indent)

simplify(fline, exclude_indent) == simplify_from(fline.fwords, 1, exclude_indent)

to_pline(fline, exclude_indent) ==
    PLine(simplify(fline, exclude_indent), fline.justifiable)

\* PLine.simplify()
pline_simplify(pline, exclude_indent) ==
    IF exclude_indent THEN lstrip(pline.txt, {" "}) ELSE pline.txt

to_fline(pline, exclude_indent) ==
    FLine(flat_parse(pline_simplify(pline, exclude_indent)), pline.justifiable)

UnwrittenLines(lines, formatting) ==
    [lines |-> lines, staged |-> None, formatting |-> formatting]

\* UnwrittenLines.simplify()
uw_simplify(uw, exclude_indent) ==
    [k \in 1..Len(uw.lines) |->
        IF uw.lines[k].kind = "FLine"
        THEN simplify(uw.lines[k], exclude_indent)
        ELSE pline_simplify(uw.lines[k], exclude_indent)]

\* UnwrittenLines.remaining
remaining(uw) == Len(uw.lines)

(***************************************************************************)
(* TextBox._wrap_text_TESTING                                              *)
(***************************************************************************)
\* nl = FLine(...); if not formatting: nl = nl.to_pline()
new_line(fwords, justifiable, formatting) ==
    IF formatting THEN FLine(fwords, justifiable)
    ELSE to_pline(FLine(fwords, justifiable), FALSE)

\* A slip: the space before the new word is not counted.
cand_w_no_space(cur_w, new_fword) == cur_w + word_w(new_fword)

\* cand_w = cur_w; w, h = fwi['word_px_dict'][new_fword];
\* cand_w += w + space_w
cand_w(cur_w, new_fword) == cur_w + word_w(new_fword) + space_w

\* The `while len(fwords) > 0:` loop of one rough line;
\* st = [fwords, current_line_to_add, cur_w, lines].
RECURSIVE wrap_words(_, _, _, _)
wrap_words(st, later_indent, max_w, formatting) ==
    IF st.fwords = <<>> THEN st
    ELSE LET new_fword == Head(st.fwords)
         IN  IF cand_w(st.cur_w, new_fword) > max_w
             THEN wrap_words(
                      [fwords |-> Tail(st.fwords),
                       current_line_to_add |-> <<later_indent, new_fword>>,
                       cur_w |-> word_w(later_indent) + word_w(new_fword),
                       lines |-> Append(st.lines,
                                        new_line(st.current_line_to_add, TRUE,
                                                 formatting))],
                      later_indent, max_w, formatting)
             ELSE wrap_words(
                      [fwords |-> Tail(st.fwords),
                       current_line_to_add |-> Append(st.current_line_to_add,
                                                      new_fword),
                       cur_w |-> cand_w(st.cur_w, new_fword)
                                 + (IF new_fword.xspace THEN space_w ELSE 0),
                       lines |-> st.lines],
                      later_indent, max_w, formatting)

\* The words of one rough line: all_parse(rough_line.strip(), ...)
rough_line_fwords(rough_line, formatting, discard_formatting) ==
    all_parse(strip(rough_line, Whitespace), formatting, discard_formatting)

\* A slip: the first word is popped but not put on the line.
wrap_rough_line_loses_word(acc, rough_line, first_indent, later_indent, max_w, formatting, discard_formatting) ==
    LET indent == IF acc.rl_count = 0 THEN first_indent ELSE later_indent
        fwords == rough_line_fwords(rough_line, formatting, discard_formatting)
        st == wrap_words(
                  [fwords |-> Tail(fwords),
                   current_line_to_add |-> <<indent>>,
                   cur_w |-> word_w(indent),
                   lines |-> acc.lines],
                  later_indent, max_w, formatting)
    IN  IF Len(fwords) = 0 THEN acc
        ELSE [lines |-> Append(st.lines,
                               new_line(st.current_line_to_add, FALSE,
                                        formatting)),
              rl_count |-> acc.rl_count + 1]

\* A slip: the `justifiable = False` after the loop is left out.
wrap_rough_line_keeps_flag(acc, rough_line, first_indent, later_indent, max_w, formatting, discard_formatting) ==
    LET indent == IF acc.rl_count = 0 THEN first_indent ELSE later_indent
        fwords == rough_line_fwords(rough_line, formatting, discard_formatting)
        st == wrap_words(
                  [fwords |-> Tail(fwords),
                   current_line_to_add |-> <<indent, Head(fwords)>>,
                   cur_w |-> word_w(indent) + word_w(Head(fwords)),
                   lines |-> acc.lines],
                  later_indent, max_w, formatting)
    IN  IF Len(fwords) = 0 THEN acc
        ELSE [lines |-> Append(st.lines,
                               new_line(st.current_line_to_add, TRUE,
                                        formatting)),
              rl_count |-> acc.rl_count + 1]

\* The body of `for rough_line in rough_lines:`; acc = [lines, rl_count].
wrap_rough_line(acc, rough_line, first_indent, later_indent, max_w, formatting, discard_formatting) ==
    LET indent == IF acc.rl_count = 0 THEN first_indent ELSE later_indent
        fwords == rough_line_fwords(rough_line, formatting, discard_formatting)
        st == wrap_words(
                  [fwords |-> Tail(fwords),
                   current_line_to_add |-> <<indent, Head(fwords)>>,
                   cur_w |-> word_w(indent) + word_w(Head(fwords)),
                   lines |-> acc.lines],
                  later_indent, max_w, formatting)
    IN  IF Len(fwords) = 0 THEN acc
        ELSE [lines |-> Append(st.lines,
                               new_line(st.current_line_to_add, FALSE,
                                        formatting)),
              rl_count |-> acc.rl_count + 1]

RECURSIVE wrap_rough_lines(_, _, _, _, _, _, _)
wrap_rough_lines(acc, rough_lines, first_indent, later_indent, max_w, formatting, discard_formatting) ==
    IF rough_lines = <<>> THEN acc
    ELSE wrap_rough_lines(
             wrap_rough_line(acc, Head(rough_lines), first_indent,
                             later_indent, max_w, formatting,
                             discard_formatting),
             Tail(rough_lines), first_indent, later_indent, max_w,
             formatting, discard_formatting)

\* text.strip('\r\n'); text.replace('\r', '\n'); text.split('\n')
rough_lines_of(t) == split(replace(strip(t, {"\r", "\n"}), "\r", "\n"), "\n")

indent_fword(n) == FWord(spaces(n), FALSE, FALSE, FALSE, FALSE)

\* A slip: the paragraph indent is not used.
wrap_text_TESTING_one_indent(t, paragraph_indent, new_line_indent, formatting, discard_formatting, max_w) ==
    UnwrittenLines(
        wrap_rough_lines([lines |-> <<>>, rl_count |-> 0], rough_lines_of(t),
                         indent_fword(new_line_indent),
                         indent_fword(new_line_indent), max_w, formatting,
                         discard_formatting).lines,
        formatting)

wrap_text_TESTING(t, paragraph_indent, new_line_indent, formatting, discard_formatting, max_w) ==
    UnwrittenLines(
        wrap_rough_lines([lines |-> <<>>, rl_count |-> 0], rough_lines_of(t),
                         indent_fword(paragraph_indent),
                         indent_fword(new_line_indent), max_w, formatting,
                         discard_formatting).lines,
        formatting)

(***************************************************************************)
(* Cursors.  A cursor is an attribute of the TextBox holding a coord       *)
(* <<x, y>>; a cursor name that was never set holds None and reads fall    *)
(* back to text_cursor.                                                    *)
(***************************************************************************)
CursorNames == {"text_cursor", "margin_cursor"}

\* self.text_cursor = (0, 0), no other cursor set
InitCursors == [c \in CursorNames |-> IF c = "text_cursor" THEN <<0, 0>> ELSE None]

\* getattr(self, cursor, self.text_cursor)
get_cursor(cs, cursor) ==
    IF cs[cursor] = None THEN cs["text_cursor"] ELSE cs[cursor]

\* A slip: the coord is stored in text_cursor whatever the name given.
set_cursor_default(cs, coord, cursor) == [cs EXCEPT !["text_cursor"] = coord]

set_cursor(cs, coord, cursor) == [cs EXCEPT ![cursor] = coord]

\* A slip: the spacing between lines is not added.
next_line_cursor_no_spacing(cs, cursor, spacing) ==
    set_cursor(cs, <<0, get_cursor(cs, cursor)[2] + text_line_height>>, cursor)

next_line_cursor(cs, cursor, spacing) ==
    set_cursor(cs, <<0, get_cursor(cs, cursor)[2] + text_line_height + spacing>>,
               cursor)

\* self.set_cursor((0, 0), cursor)
reset_cursor(cs, cursor) == set_cursor(cs, <<0, 0>>, cursor)

\* The coord update_cursor returns.
update_cursor_coord(cs, xy_delta, cursor) ==
    <<get_cursor(cs, cursor)[1] + xy_delta[1],
      get_cursor(cs, cursor)[2] + xy_delta[2]>>

update_cursor(cs, xy_delta, cursor, commit) ==
    IF commit THEN [cs EXCEPT ![cursor] = update_cursor_coord(cs, xy_delta, cursor)]
    ELSE cs

\* next_line_cursor(cursor, commit)
next_line_cursor_commit(cs, cursor, commit, spacing) ==
    IF commit THEN next_line_cursor(cs, cursor, spacing) ELSE cs

same_line_cursor(cs, xy_delta, cursor, commit, add_space, prevent_linebreak, W, spacing) ==
    LET x1 == get_cursor(cs, cursor)[1] + xy_delta[1]
                + (IF add_space THEN space_w ELSE 0)
    IN  IF ~prevent_linebreak /\ x1 >= W
        THEN next_line_cursor_commit(cs, cursor, commit, spacing)
        ELSE IF commit
        THEN set_cursor(cs, <<x1, get_cursor(cs, cursor)[2]>>, cursor)
        ELSE cs

check_cursor_overshoot(cs, xy_delta, cursor, W, H) ==
    LET c == get_cursor(cs, cursor)
    IN  <<c[1] + xy_delta[1] - W, c[2] + xy_delta[2] - H>>

check_legal_cursor(cs, xy_delta, cursor, W, H) ==
    LET o == check_cursor_overshoot(cs, xy_delta, cursor, W, H)
    IN  ~(o[1] > 0 \/ o[2] > 0)

\* A slip: the height of the line itself is not taken off first.
lines_left_whole_height(cs, cursor, H, spacing) ==
    LET y_remain == H - get_cursor(cs, cursor)[2]
    IN  IF y_remain < 0 THEN 0
        ELSE 1 + (y_remain \div (text_line_height + spacing))

lines_left(cs, cursor, H, spacing) ==
    LET y_remain == H - get_cursor(cs, cursor)[2] - text_line_height
    IN  IF y_remain < 0 THEN 0
        ELSE 1 + (y_remain \div (text_line_height + spacing))

\* A slip: the last line is taken to be reached when no line is left.
on_last_line_too_late(cs, cursor, H, spacing) == lines_left(cs, cursor, H, spacing) = 0

on_last_line(cs, cursor, H, spacing) == lines_left(cs, cursor, H, spacing) = 1

is_exhausted(cs, cursor, H, spacing) == lines_left(cs, cursor, H, spacing) = 0

(***************************************************************************)
(* TextBox.write_line, _write_pline, _write_fline.  The result of a write  *)
(* is a record: `outcome` is "written" (None is returned), "returned"      *)
(* (the line is returned unwritten) or "raised" (ZeroDivisionError);       *)
(* `line` is the line object after the call; `calls` are the               *)
(* text_draw.text() calls made and `gaps` the px the coord was moved       *)
(* right after each word that is followed by a space.                      *)
(***************************************************************************)
WriteResult(outcome, line, via, justify, txt, calls, gaps) ==
    [outcome |-> outcome, line |-> line, via |-> via, justify |-> justify,
     txt |-> txt, calls |-> calls, gaps |-> gaps]

\* A slip: the line is left staged.
line_unstage_forgotten(line) == line

\* FLine._unstage(), PLine._unstage()
line_unstage(line) == [line EXCEPT !.staged = None]

\* FLine._stage(indent)
fline_stage(fline, indent) ==
    IF indent = None THEN fline.fwords
    ELSE <<FWord(indent[1], FALSE, FALSE, FALSE, FALSE)>> \o fline.fwords

\* PLine._stage(indent)
pline_stage(pline, indent) ==
    IF indent = None THEN pline.txt ELSE indent[1] \o pline.txt

\* if indent is not None: indent = ' ' * indent
indent_str(indent) == IF indent = None THEN None ELSE Some(spaces(indent[1]))

RECURSIVE sum_word_w(_)
sum_word_w(fwords) ==
    IF fwords = <<>> THEN 0 ELSE word_w(Head(fwords)) + sum_word_w(Tail(fwords))

RECURSIVE max_word_h(_)
max_word_h(fwords) ==
    IF fwords = <<>> THEN 0
    ELSE LET h == word_h(Head(fwords))
             m == max_word_h(Tail(fwords))
         IN  IF h > m THEN h ELSE m

\* FLine._extract_fword_info(): 'total_spaces'
total_spaces(fwords) ==
    Cardinality({i \in 1..Len(fwords) : i # Len(fwords) /\ fwords[i].xspace})

\* FLine._extract_fword_info()
extract_fword_info(fwords) ==
    [line_word_w |-> sum_word_w(fwords),
     line_word_h |-> max_word_h(fwords),
     line_w |-> sum_word_w(fwords) + space_w * total_spaces(fwords),
     space_w |-> space_w,
     total_spaces |-> total_spaces(fwords)]

\* A slip: the bonus px are never spent.
gap_px_no_bonus(spwd, bonus_sp_px, justify) ==
    IF ~justify THEN space_w ELSE spwd

\* The space written after a word: spwd, one px more while bonus px are
\* left, but a single space character when not justifying.
gap_px(spwd, bonus_sp_px, justify) ==
    IF ~justify THEN space_w
    ELSE IF bonus_sp_px > 0 THEN spwd + 1 ELSE spwd

\* The `for fword in fwords:` loop of _write_fline;
\* st = [coord, i, bonus_sp_px, calls, gaps].
RECURSIVE write_fwords(_, _, _, _)
write_fwords(st, fwords, spwd, justify) ==
    IF st.i > Len(fwords) THEN st
    ELSE LET fword == fwords[st.i]
             fwords_left == Len(fwords) - st.i + 1
             spaced == fwords_left > 1 /\ fword.xspace
             space == gap_px(spwd, st.bonus_sp_px, justify)
             x1 == st.coord[1] + word_w(fword)
             next == [coord |-> <<IF spaced THEN x1 + space ELSE x1, st.coord[2]>>,
                      i |-> st.i + 1,
                      bonus_sp_px |-> IF spaced /\ st.bonus_sp_px > 0
                                      THEN st.bonus_sp_px - 1 ELSE st.bonus_sp_px,
                      calls |-> Append(st.calls,
                                       [xy |-> st.coord, txt |-> fword.txt,
                                        bold |-> fword.bold, ital |-> fword.ital]),
                      gaps |-> IF spaced THEN Append(st.gaps, space) ELSE st.gaps]
         IN  \* the loop goes on from the value of `next`
             CHOOSE r \in {write_fwords(s, fwords, spwd, justify) : s \in {next}} : TRUE

write_fline(fline, cs, cursor, override_legal_check, indent, justify, W, H) ==
    LET fwords == fline_stage(fline, indent_str(indent))
        line_info == extract_fword_info(fwords)
        px_all_spaces == W - line_info.line_word_w
        few == Len(fwords) \in {0, 1}
        spwd == IF few THEN 0 ELSE px_all_spaces \div line_info.total_spaces
        bonus_sp_px == IF few THEN 0 ELSE px_all_spaces % line_info.total_spaces
        illegal_width == px_all_spaces < 0 \/ spwd < line_info.space_w
        is_legal == override_legal_check
                    \/ check_legal_cursor(cs, <<0, line_info.line_word_h>>,
                                          cursor, W, H)
        w == write_fwords([coord |-> get_cursor(cs, cursor), i |-> 1,
                           bonus_sp_px |-> bonus_sp_px, calls |-> <<>>,
                           gaps |-> <<>>],
                          fwords, spwd, justify)
        staged == [fline EXCEPT !.staged = Some(fwords)]
    IN  IF ~few /\ line_info.total_spaces = 0
        THEN \* px_all_spaces // 0
             WriteResult("raised", staged, "write_fline", justify, <<>>,
                         <<>>, <<>>)
        ELSE IF illegal_width /\ (justify \/ ~override_legal_check)
        THEN WriteResult("returned", line_unstage(staged), "write_fline",
                         justify, <<>>, <<>>, <<>>)
        ELSE IF ~is_legal
        THEN WriteResult("returned", line_unstage(staged), "write_fline",
                         justify, <<>>, <<>>, <<>>)
        ELSE WriteResult("written", staged, "write_fline", justify,
                         simplify_from(fwords, 1, FALSE), w.calls, w.gaps)

write_pline(pline, cs, cursor, override_legal_check, indent, W, H) ==
    LET staged_line == pline_stage(pline, indent_str(indent))
        legal == check_legal_cursor(
                     cs, <<textsize_w(staged_line, FALSE),
                           textsize_h(staged_line)>>, cursor, W, H)
        staged == [pline EXCEPT !.staged = Some(staged_line)]
    IN  IF legal \/ override_legal_check
        THEN WriteResult("written", staged, "write_pline", FALSE, staged_line,
                         <<[xy |-> get_cursor(cs, cursor), txt |-> staged_line,
                            bold |-> FALSE, ital |-> FALSE]>>, <<>>)
        ELSE WriteResult("returned", line_unstage(staged), "write_pline",
                         FALSE, <<>>, <<>>, <<>>)

\* write_line() for a PLine or FLine object.
write_line(line, cs, cursor, reserve_last_line, override_legal_check, indent, justify, W, H, spacing) ==
    IF reserve_last_line /\ on_last_line(cs, cursor, H, spacing)
    THEN WriteResult("returned", line, "write_line", FALSE, <<>>, <<>>, <<>>)
    ELSE IF line.kind = "FLine"
    THEN write_fline(line, cs, cursor, override_legal_check, indent,
                     justify /\ line.justifiable, W, H)
    ELSE IF justify /\ line.justifiable
    THEN \* conv_line = text.to_fline(); the PLine itself is never staged
         CHOOSE r \in {[write_fline(conv_line, cs, cursor, override_legal_check, indent, justify, W, H) EXCEPT !.line = line] : conv_line \in {to_fline(line, FALSE)}} : TRUE
    ELSE write_pline(line, cs, cursor, override_legal_check, indent, W, H)

\* compile_line()
compile_line(fwords, formatting, justifiable) ==
    IF formatting THEN FLine(fwords, justifiable)
    ELSE to_pline(FLine(fwords, justifiable), FALSE)

parse_into_line(t, formatting, justifiable, discard_formatting) ==
    compile_line(all_parse(t, formatting, discard_formatting), formatting,
                 justifiable)

(***************************************************************************)
(* The parser as a machine: a text is chosen, then one of the parsers is   *)
(* applied to it.                                                          *)
(***************************************************************************)
ParseAlphabet == {"x", "q", " ", "<b>", "</b>", "<i>"}

FullAlphabet == ParseAlphabet \cup {"</i>", "\n", "\r"}

ParseTexts ==
    SeqsUpTo(ParseAlphabet, MaxParseLen) \cup SeqsUpTo(FullAlphabet, MaxShortLen)

NoQueue == [lines |-> <<>>, staged |-> None, formatting |-> FALSE]

InitParse ==
    /\ text \in ParseTexts
    /\ cfg \in [discard_formatting : BOOLEAN, start_bold : BOOLEAN,
                start_ital : BOOLEAN]
    /\ pc = "idle"
    /\ parsed = None
    /\ unwritten = NoQueue
    /\ cursors = <<>>
    /\ drawn = <<>>
    /\ ret = None
    /\ ncalls = 0

FormatParseDeepCall ==
    /\ pc = "idle"
    /\ parsed' = format_parse_deep(text, cfg.discard_formatting,
                                   cfg.start_bold, cfg.start_ital)
    /\ pc' = "format_parse_deep"
    /\ UNCHANGED <<text, cfg, unwritten, cursors, drawn, ret, ncalls>>

FlatParseCall ==
    /\ pc = "idle"
    /\ parsed' = [fwords |-> flat_parse(text), bold |-> FALSE, ital |-> FALSE]
    /\ pc' = "flat_parse"
    /\ UNCHANGED <<text, cfg, unwritten, cursors, drawn, ret, ncalls>>

NextParse == FormatParseDeepCall \/ FlatParseCall

SpecParse == InitParse /\ [][NextParse]_vars

(***************************************************************************)
(* The parts of one raw word: the format codes at its front, the codes at  *)
(* its back, and what lies between them.                                   *)
(***************************************************************************)
FrontCodes(w) == SubSeq(w, 1, Len(w) - Len(lstrip(w, format_codes)))

Core(w) == strip(w, format_codes)

BackCodes(w) ==
    LET rest == lstrip(w, format_codes)
    IN  SubSeq(rest, Len(Core(w)) + 1, Len(rest))

\* The positions in a run of codes that hold a code of one kind.
CodesOf(run, on, off) == {i \in 1..Len(run) : run[i] \in {on, off}}

Max(S) == CHOOSE m \in S : \A n \in S : n <= m

Min(S) == CHOOSE m \in S : \A n \in S : m <= n

\* The value set by the rightmost code of a kind in a run, else `dflt`.
Rightmost(run, on, off, dflt) ==
    IF CodesOf(run, on, off) = {} THEN dflt
    ELSE run[Max(CodesOf(run, on, off))] = on

\* The value set by the leftmost code of a kind in a run, else `dflt`.
Leftmost(run, on, off, dflt) ==
    IF CodesOf(run, on, off) = {} THEN dflt
    ELSE run[Min(CodesOf(run, on, off))] = on

\* The values a run of codes may carry over: unchanged when the run holds
\* no code of the kind, else a value set by one of its codes.
CarrySet(run, on, off, dflt) ==
    IF CodesOf(run, on, off) = {} THEN {dflt}
    ELSE {run[i] = on : i \in CodesOf(run, on, off)}

OneWordStyled ==
    LET w  == raw_words(text)[1]
        sb == Rightmost(FrontCodes(w), "<b>", "</b>", cfg.start_bold)
        si == Rightmost(FrontCodes(w), "<i>", "</i>", cfg.start_ital)
    IN  /\ parsed.fwords = IF Core(w) = <<>> THEN <<>>
                           ELSE <<FWord(Core(w), sb, si, TRUE, FALSE)>>
        /\ parsed.bold \in CarrySet(BackCodes(w), "<b>", "</b>", sb)
        /\ parsed.ital \in CarrySet(BackCodes(w), "<i>", "</i>", si)

\* Parsing a text is parsing what precedes a space, then what follows it
\* from the state the first part ended in.
ParseComposes ==
    \A k \in 1..Len(text) :
        text[k] = " " =>
            LET l == format_parse_deep(SubSeq(text, 1, k - 1), FALSE,
                                       cfg.start_bold, cfg.start_ital)
                r == format_parse_deep(SubSeq(text, k + 1, Len(text)), FALSE,
                                       l.bold, l.ital)
            IN  parsed = [fwords |-> l.fwords \o r.fwords,
                          bold |-> r.bold, ital |-> r.ital]

MarkupBalanceText == <<"<b>", "x", "</b>", " ", "q">>

\* C9: in format_parse_deep the codes at the front of a word set the style
\* of that word, the codes at its back leave its style alone and only set
\* the style carried to the following words, and codes inside a word stay
\* in its text; '<b>foo</b> bar' gives foo bold and bar not bold.
FrontCodesStyleWordBackCodesCarry ==
    (pc = "format_parse_deep" /\ ~cfg.discard_formatting) =>
        /\ Len(raw_words(text)) = 1 => OneWordStyled
        /\ ParseComposes
        /\ (text = MarkupBalanceText /\ ~cfg.start_bold /\ ~cfg.start_ital) =>
               parsed.fwords = <<FWord(<<"x">>, TRUE, FALSE, TRUE, FALSE),
                                 FWord(<<"q">>, FALSE, FALSE, TRUE, FALSE)>>

MarkupBalanceParsed ==
    /\ pc = "format_parse_deep"
    /\ text = MarkupBalanceText
    /\ ~cfg.discard_formatting /\ ~cfg.start_bold /\ ~cfg.start_ital
    /\ Len(parsed.fwords) = 2

\* The first raw word carries several codes of one kind at its back.
SeveralBackCodes(on, off) ==
    Cardinality(CodesOf(BackCodes(raw_words(text)[1]), on, off)) >= 2

\* The style state after the first raw word: the final state when the text
\* is that word alone, the style of the second word when that is a letter.
CarriedIs(field, v) ==
    LET rw == raw_words(text)
    IN  /\ Len(rw) = 1 => parsed[field] = v
        /\ (Len(rw) = 2 /\ Len(rw[2]) = 1 /\ rw[2][1] \in Letters
              /\ ~cfg.discard_formatting)
             => parsed.fwords[Len(parsed.fwords)][field] = v

\* C10 as stated: of several codes of one kind at the back of a word, the
\* one closest to the text of the word sets the carried state.
ClosestBackCodeCarries ==
    pc = "format_parse_deep" =>
        /\ SeveralBackCodes("<b>", "</b>") =>
               CarriedIs("bold", Leftmost(BackCodes(raw_words(text)[1]),
                                          "<b>", "</b>", FALSE))
        /\ SeveralBackCodes("<i>", "</i>") =>
               CarriedIs("ital", Leftmost(BackCodes(raw_words(text)[1]),
                                          "<i>", "</i>", FALSE))

\* C10 (amended): of several codes of one kind at the back of a word, the
\* last one in reading order (the one furthest from the text of the word)
\* sets the state carried to the following words.
LastBackCodeCarries ==
    pc = "format_parse_deep" =>
        /\ SeveralBackCodes("<b>", "</b>") =>
               CarriedIs("bold", Rightmost(BackCodes(raw_words(text)[1]),
                                           "<b>", "</b>", FALSE))
        /\ SeveralBackCodes("<i>", "</i>") =>
               CarriedIs("ital", Rightmost(BackCodes(raw_words(text)[1]),
                                           "<i>", "</i>", FALSE))

TwoBackCodesParsed ==
    /\ pc = "format_parse_deep"
    /\ text = <<"x", "</b>", "<b>", " ", "q">>
    /\ ~cfg.discard_formatting
    /\ parsed.fwords[2].bold

(***************************************************************************)
(* The packer as a machine: a text and a TextBox configuration are chosen, *)
(* then the text is wrapped.                                               *)
(***************************************************************************)
WrapAlphabet == {"x", "q", " ", "\n", "<b>", "</b>"}

PlainAlphabet == {"x", " ", "\n"}

ParaWords == {<<"x">>, <<"q">>}

\* Texts of n words, a space or a linebreak between two words.
RECURSIVE WordTexts(_)
WordTexts(n) ==
    IF n = 0 THEN {}
    ELSE ParaWords
         \cup {t \o <<sep>> \o w :
                 t \in WordTexts(n - 1), sep \in {" ", "\n"}, w \in ParaWords}

\* Texts whose first rough line has no word.
BlankFirstTexts ==
    {<<b, "\n">> \o t : b \in {" ", "<b>"}, t \in WordTexts(2)}

WrapTexts ==
    SeqsUpTo(WrapAlphabet, MaxWrapLen) \cup SeqsUpTo(PlainAlphabet, MaxPlainLen)
        \cup BlankFirstTexts

\* self.im.width
Widths == {25, 39, 40, 47}

\* paragraph_indent, new_line_indent
IndentChars == {0, 2}

InitWrap ==
    /\ text \in WrapTexts
    /\ cfg \in {c \in [width : Widths, paragraph_indent : IndentChars,
                       new_line_indent : IndentChars, formatting : BOOLEAN,
                       discard_formatting : BOOLEAN] :
                   c.discard_formatting => c.formatting}
    /\ pc = "idle"
    /\ parsed = None
    /\ unwritten = NoQueue
    /\ cursors = <<>>
    /\ drawn = <<>>
    /\ ret = None
    /\ ncalls = 0

WrapTextCall ==
    /\ pc = "idle"
    /\ unwritten' = wrap_text_TESTING(text, cfg.paragraph_indent,
                                      cfg.new_line_indent, cfg.formatting,
                                      cfg.discard_formatting, cfg.width)
    /\ pc' = "wrapped"
    /\ UNCHANGED <<text, cfg, parsed, cursors, drawn, ret, ncalls>>

NextWrap == WrapTextCall

SpecWrap == InitWrap /\ [][NextWrap]_vars

\* The width of a line of words as drawn unjustified: the words, and one
\* space after every word but the last that permits one.
NaturalW(fwords) ==
    LET RECURSIVE nw(_)
        nw(i) == IF i > Len(fwords) THEN 0
                 ELSE word_w(fwords[i])
                      + (IF i # Len(fwords) /\ fwords[i].xspace
                         THEN space_w ELSE 0)
                      + nw(i + 1)
    IN  nw(1)

ThreeWordsText == <<"x", " ", "x", " ", "x">>

\* C6: the packer ends a line before a word only if the line with that word
\* appended (word widths, indent included, plus one space per gap) exceeds
\* the available width; three 10px words with 5px spaces and no indent are
\* packed onto one line at width 40, and the third wraps at width 39.
GreedyPackingExact ==
    pc = "wrapped" =>
        /\ cfg.formatting =>
               \A k \in 1..(Len(unwritten.lines) - 1) :
                   unwritten.lines[k].justifiable =>
                       NaturalW(Append(unwritten.lines[k].fwords,
                                       unwritten.lines[k + 1].fwords[2]))
                           > cfg.width
        /\ (text = ThreeWordsText /\ cfg.paragraph_indent = 0
              /\ cfg.new_line_indent = 0) =>
               /\ cfg.width = 40 => Len(unwritten.lines) = 1
               /\ cfg.width = 39 => Len(unwritten.lines) = 2

\* The number of packed lines after the first i rough lines.
LinesAfter(i) ==
    Len(wrap_rough_lines([lines |-> <<>>, rl_count |-> 0],
                         SubSeq(rough_lines_of(text), 1, i),
                         indent_fword(cfg.paragraph_indent),
                         indent_fword(cfg.new_line_indent), cfg.width,
                         cfg.formatting, cfg.discard_formatting).lines)

\* The packed lines that are the last one of their rough line.
EndsRoughLine == {LinesAfter(i) : i \in 1..Len(rough_lines_of(text))} \ {0}

\* C7: in every packed queue the last line of the output and the last line
\* of each rough line are not justifiable; every other line is justifiable.
JustifiableFlagBoundary ==
    pc = "wrapped" =>
        /\ Len(unwritten.lines) > 0 =>
               ~unwritten.lines[Len(unwritten.lines)].justifiable
        /\ \A k \in 1..Len(unwritten.lines) :
               unwritten.lines[k].justifiable <=> k \notin EndsRoughLine

WrappedTwoRoughLines ==
    /\ pc = "wrapped"
    /\ Len(rough_lines_of(text)) = 2
    /\ Len(unwritten.lines) = 3
    /\ unwritten.lines[1].justifiable
    /\ ~unwritten.lines[2].justifiable
    /\ EndsRoughLine = {2, 3}

\* The words of the rough lines, each parsed from the style state the
\* one before it ended in.
RECURSIVE ThreadedWords(_, _, _)
ThreadedWords(rls, bold, ital) ==
    IF rls = <<>> THEN <<>>
    ELSE LET p == format_parse_deep(strip(Head(rls), Whitespace), FALSE,
                                    bold, ital)
         IN  p.fwords \o ThreadedWords(Tail(rls), p.bold, p.ital)

\* The words of the packed lines without the indent that starts each line.
RECURSIVE ContentWords(_)
ContentWords(lines) ==
    IF lines = <<>> THEN <<>>
    ELSE Tail(Head(lines).fwords) \o ContentWords(Tail(lines))

\* C8: with markup honored, the bold/italic state at the end of a rough
\* line is the starting state of the next rough line.
MarkupCarriesAcrossLinebreaks ==
    (pc = "wrapped" /\ cfg.formatting /\ ~cfg.discard_formatting) =>
        ContentWords(unwritten.lines)
            = ThreadedWords(rough_lines_of(text), FALSE, FALSE)

(***************************************************************************)
(* write_line as a machine: a TextBox and a text are chosen, then          *)
(* write_line(text, ...) is called on it, possibly more than once.         *)
(***************************************************************************)
LineAlphabet == {"x", "q", " "}

LineTexts ==
    SeqsUpTo(LineAlphabet, MaxLineLen)
        \cup SeqsUpTo(LineAlphabet \cup {"<b>", "\n"}, MaxShortLen)

\* self.im.height
Heights == {8, 30}

\* self.spacing
Spacing == 2

\* The `indent` argument of write_line.
IndentArgs == {None, Some(0), Some(2)}

InitLine ==
    /\ text \in LineTexts
    /\ cfg \in [width : Widths, height : Heights, formatting : BOOLEAN,
                justify : BOOLEAN, reserve_last_line : BOOLEAN,
                override_legal_check : BOOLEAN, indent : IndentArgs,
                cursor : {"text_cursor"}]
    /\ pc = "idle"
    /\ parsed = None
    /\ unwritten = NoQueue
    /\ cursors = InitCursors
    /\ drawn = <<>>
    /\ ret = None
    /\ ncalls = 0

\* The record kept of a line that was drawn.
DrawnLine(r, cursor, call) ==
    [via |-> r.via, justify |-> r.justify, txt |-> r.txt, calls |-> r.calls,
     gaps |-> r.gaps, cursor |-> cursor, call |-> call]

\* The line write_line makes of a str: parse_into_line(text, formatting,
\* justifiable=True, discard_formatting)
LineOfText == parse_into_line(text, cfg.formatting, TRUE, FALSE)

\* A slip: the cursor is moved to the next line before the line is tested.
WriteLineCall_moves_first ==
    /\ pc \in {"idle", "written", "returned"}
    /\ ncalls < MaxLineCalls
    /\ LET r == write_line(LineOfText, cursors, cfg.cursor,
                           cfg.reserve_last_line, cfg.override_legal_check,
                           cfg.indent, cfg.justify, cfg.width, cfg.height,
                           Spacing)
       IN  /\ pc' = r.outcome
           /\ drawn' = IF r.outcome = "written"
                        THEN Append(drawn, DrawnLine(r, cfg.cursor, ncalls + 1))
                        ELSE drawn
           /\ cursors' = next_line_cursor(cursors, cfg.cursor, Spacing)
           /\ ret' = IF r.outcome = "returned" THEN Some(r.line) ELSE None
    /\ ncalls' = ncalls + 1
    /\ UNCHANGED <<text, cfg, parsed, unwritten>>

WriteLineCall ==
    /\ pc \in {"idle", "written", "returned"}
    /\ ncalls < MaxLineCalls
    /\ LET r == write_line(LineOfText, cursors, cfg.cursor,
                           cfg.reserve_last_line, cfg.override_legal_check,
                           cfg.indent, cfg.justify, cfg.width, cfg.height,
                           Spacing)
       IN  /\ pc' = r.outcome
           /\ drawn' = IF r.outcome = "written"
                        THEN Append(drawn, DrawnLine(r, cfg.cursor, ncalls + 1))
                        ELSE drawn
           /\ cursors' = IF r.outcome = "written"
                          THEN next_line_cursor(cursors, cfg.cursor, Spacing)
                          ELSE cursors
           /\ ret' = IF r.outcome = "returned" THEN Some(r.line) ELSE None
    /\ ncalls' = ncalls + 1
    /\ UNCHANGED <<text, cfg, parsed, unwritten>>

NextLine == WriteLineCall

SpecLine == InitLine /\ [][NextLine]_vars

RECURSIVE SumSeq(_)
SumSeq(s) == IF s = <<>> THEN 0 ELSE Head(s) + SumSeq(Tail(s))

\* The px left for the spaces of a drawn line: the canvas width minus the
\* widths of the words drawn.
Slack(rec) ==
    cfg.width - SumSeq([i \in 1..Len(rec.calls) |->
                           textsize_w(rec.calls[i].txt, rec.calls[i].bold)])

JustifiedWithGaps(rec) ==
    rec.via = "write_fline" /\ rec.justify /\ Len(rec.gaps) >= 1

\* C3: every line _write_fline draws justified with at least one gap gets
\* slack div gap_count + 1 px in its first (slack mod gap_count) gaps and
\* slack div gap_count px in the rest; the gaps sum to slack exactly and
\* differ by at most 1 px.
PixelExactJustification ==
    \A k \in 1..Len(drawn) :
        JustifiedWithGaps(drawn[k]) =>
            LET gaps == drawn[k].gaps
                n == Len(gaps)
                slack == Slack(drawn[k])
            IN  /\ \A i \in 1..n :
                       gaps[i] = (slack \div n) + (IF i <= slack % n THEN 1 ELSE 0)
                /\ SumSeq(gaps) = slack
                /\ \A i, j \in 1..n : gaps[i] - gaps[j] <= 1

JustifiedUnevenGapsDrawn ==
    \E k \in 1..Len(drawn) :
        /\ JustifiedWithGaps(drawn[k])
        /\ Len(drawn[k].gaps) = 2
        /\ drawn[k].gaps[1] = drawn[k].gaps[2] + 1

\* The words _write_fline stages for the line made of the text.
StagedWords ==
    fline_stage(IF LineOfText.kind = "FLine" THEN LineOfText
                ELSE to_fline(LineOfText, FALSE),
                indent_str(cfg.indent))

StagedSlack == cfg.width - sum_word_w(StagedWords)

JustifyIllegal ==
    \/ StagedSlack < 0
    \/ /\ total_spaces(StagedWords) > 0
       /\ StagedSlack \div total_spaces(StagedWords) < space_w

\* C4: a line written with justification in effect whose slack is negative
\* or whose slack div gap_count is less than one space is rejected:
\* returned unwritten, nothing drawn, cursor not moved, whatever
\* override_legal_check is.
JustifyIllegalRejected ==
    [][(ncalls' = ncalls + 1 /\ cfg.justify /\ JustifyIllegal)
          => (pc' = "returned" /\ ret' = Some(LineOfText)
              /\ drawn' = drawn /\ cursors' = cursors)]_vars

\* The words of the line made of the text, indent not counted.
LineWords ==
    IF LineOfText.kind = "FLine" THEN LineOfText.fwords
    ELSE flat_parse(LineOfText.txt)

\* The line with its indent fits the canvas at the cursor.
FitsCanvas ==
    LET staged == IF cfg.indent = None THEN simplify_from(LineWords, 1, FALSE)
                  ELSE spaces(cfg.indent[1]) \o simplify_from(LineWords, 1, FALSE)
        c == get_cursor(cursors, cfg.cursor)
    IN  /\ c[1] + SumW(staged) + BoldExtraW * Len(staged) <= cfg.width
        /\ c[2] + textsize_h(staged) <= cfg.height
        /\ c[2] + text_line_height <= cfg.height

\* C5: a line of 0 or 1 words that fits the canvas is written, justify
\* requested or not, and drawn unjustified; it is not rejected.
FewWordsLineWritten ==
    [][(/\ ncalls' = ncalls + 1
        /\ Len(LineWords) <= 1
        /\ FitsCanvas
        /\ ~(cfg.reserve_last_line
              /\ on_last_line(cursors, cfg.cursor, cfg.height, Spacing)))
          => (pc' = "written" /\ ret' = None /\ Len(drawn') = Len(drawn) + 1)]_vars

(***************************************************************************)
(* write_paragraph as a machine.  A TextBox and a text are chosen and      *)
(* write_paragraph(text, ...) is called; the queue it returns may be       *)
(* passed to write_paragraph again (continue_paragraph), on the same       *)
(* TextBox or on a new one configured alike.  pc is the position in        *)
(* write_paragraph and in the write_line call it makes.                    *)
(***************************************************************************)
\* UnwrittenLines._stage_next_line(): self.staged = self.lines[0]
stage_next_line(uw) == [uw EXCEPT !.staged = Some(1)]

\* A slip: the line that was not written is taken out of the queue.
unstage_drops_line(uw) == [uw EXCEPT !.staged = None, !.lines = Tail(uw.lines)]

\* UnwrittenLines._unstage()
unstage(uw) == [uw EXCEPT !.staged = None]

\* A slip: the written line is left in the queue.
successful_write_keeps_line(uw) == [uw EXCEPT !.staged = None]

\* UnwrittenLines._successful_write(): self.staged = None; self.lines.pop(0)
successful_write(uw) == [uw EXCEPT !.staged = None, !.lines = Tail(uw.lines)]

ParaTexts ==
    WordTexts(MaxWords) \cup SeqsUpTo({"x", " ", "\n", "<b>"}, MaxShortLen)

ParaWidths == {25, 47}

ParaHeights == {7, 8, 18, 30}

InitPara ==
    /\ text \in ParaTexts
    /\ cfg \in [width : ParaWidths, height : ParaHeights,
                formatting : BOOLEAN, paragraph_indent : IndentChars,
                new_line_indent : {0}, justify : BOOLEAN,
                reserve_last_line : BOOLEAN, override_legal_check : BOOLEAN,
                cursor : {"text_cursor"}]
    /\ pc = "idle"
    /\ parsed = None
    /\ unwritten = NoQueue
    /\ cursors = InitCursors
    /\ drawn = <<>>
    /\ ret = None
    /\ ncalls = 0

\* write_paragraph(text: str): the text is wrapped into an UnwrittenLines.
WriteParagraphCall ==
    /\ pc = "idle"
    /\ unwritten' = wrap_text_TESTING(text, cfg.paragraph_indent,
                                      cfg.new_line_indent, cfg.formatting,
                                      FALSE, cfg.width)
    /\ pc' = "loop"
    /\ ncalls' = 1
    /\ UNCHANGED <<text, cfg, parsed, cursors, drawn, ret>>

\* The line write_line makes of the text when it is given the str.
ParaLineOfText == parse_into_line(text, cfg.formatting, TRUE, FALSE)

\* write_line(text: str, ...) called on the new TextBox instead of
\* write_paragraph.
WriteLineStrCall ==
    /\ pc = "idle"
    /\ LET r == write_line(ParaLineOfText, cursors, cfg.cursor,
                           cfg.reserve_last_line, cfg.override_legal_check,
                           None, cfg.justify, cfg.width, cfg.height, Spacing)
       IN  /\ pc' = CASE r.outcome = "written" -> "str_written"
                       [] r.outcome = "returned" -> "str_returned"
                       [] OTHER -> "str_raised"
           /\ drawn' = IF r.outcome = "written"
                        THEN Append(drawn, DrawnLine(r, cfg.cursor, 0))
                        ELSE drawn
           /\ cursors' = IF r.outcome = "written"
                          THEN next_line_cursor(cursors, cfg.cursor, Spacing)
                          ELSE cursors
           /\ ret' = IF r.outcome = "returned" THEN Some(r.line) ELSE None
    /\ UNCHANGED <<text, cfg, parsed, unwritten, ncalls>>

\* write_paragraph(unwritten) with the queue the last call returned, on
\* this TextBox or on a new one: the text is not wrapped again.
WriteUnwrittenCall(new_textbox) ==
    /\ pc = "returned"
    /\ ncalls < MaxCalls
    /\ remaining(unwritten) > 0
    /\ cursors' = IF new_textbox THEN InitCursors ELSE cursors
    /\ pc' = "loop"
    /\ ncalls' = ncalls + 1
    /\ ret' = None
    /\ UNCHANGED <<text, cfg, parsed, unwritten, drawn>>

\* continue_paragraph(unwritten): it calls
\* self.write_paragraph(continue_lines=continue_lines, ...), and
\* write_paragraph has no parameter of that name: TypeError.
ContinueParagraphCall(new_textbox) ==
    /\ pc = "returned"
    /\ ncalls < MaxCalls
    /\ remaining(unwritten) > 0
    /\ cursors' = IF new_textbox THEN InitCursors ELSE cursors
    /\ pc' = "type_error"
    /\ ncalls' = ncalls + 1
    /\ ret' = None
    /\ UNCHANGED <<text, cfg, parsed, unwritten, drawn>>

\* `while unwritten.remaining > 0:` is false: return unwritten
ReturnWritten ==
    /\ pc = "loop"
    /\ remaining(unwritten) = 0
    /\ pc' = "returned"
    /\ UNCHANGED <<text, cfg, parsed, unwritten, cursors, drawn, ret, ncalls>>

\* if reserve_last_line and self.on_last_line(cursor): return unwritten
ReturnReserved ==
    /\ pc = "loop"
    /\ remaining(unwritten) > 0
    /\ cfg.reserve_last_line
    /\ on_last_line(cursors, cfg.cursor, cfg.height, Spacing)
    /\ pc' = "returned"
    /\ UNCHANGED <<text, cfg, parsed, unwritten, cursors, drawn, ret, ncalls>>

\* line = unwritten._stage_next_line()
StageNextLine ==
    /\ pc = "loop"
    /\ remaining(unwritten) > 0
    /\ ~(cfg.reserve_last_line
          /\ on_last_line(cursors, cfg.cursor, cfg.height, Spacing))
    /\ unwritten' = stage_next_line(unwritten)
    /\ pc' = "staged"
    /\ UNCHANGED <<text, cfg, parsed, cursors, drawn, ret, ncalls>>

\* The write_line call write_paragraph makes for the staged line.
StagedWrite ==
    write_line(unwritten.lines[1], cursors, cfg.cursor, cfg.reserve_last_line,
               cfg.override_legal_check, None, cfg.justify, cfg.width,
               cfg.height, Spacing)

\* write_line up to its legality checks: the line is staged and found
\* legal, or unstaged and returned, or the division by zero is raised.
WriteLineCheck ==
    /\ pc = "staged"
    /\ \E r \in {StagedWrite} :
           /\ unwritten' = [unwritten EXCEPT !.lines[1] = r.line]
           /\ pc' = CASE r.outcome = "written" -> "legal"
                       [] r.outcome = "returned" -> "line_returned"
                       [] OTHER -> "raised"
           /\ ret' = IF r.outcome = "returned" THEN Some(r.line) ELSE None
    /\ UNCHANGED <<text, cfg, parsed, cursors, drawn, ncalls>>

\* write_line draws the line.
DrawLine ==
    /\ pc = "legal"
    /\ \E r \in {StagedWrite} : drawn' = Append(drawn, DrawnLine(r, cfg.cursor, ncalls))
    /\ pc' = "drawn"
    /\ UNCHANGED <<text, cfg, parsed, unwritten, cursors, ret, ncalls>>

\* self.next_line_cursor(cursor=cursor, commit=True); return None
NextLineCursor ==
    /\ pc = "drawn"
    /\ cursors' = next_line_cursor(cursors, cfg.cursor, Spacing)
    /\ pc' = "line_written"
    /\ UNCHANGED <<text, cfg, parsed, unwritten, drawn, ret, ncalls>>

\* unwritten._successful_write()
SuccessfulWrite ==
    /\ pc = "line_written"
    /\ unwritten' = successful_write(unwritten)
    /\ pc' = "loop"
    /\ UNCHANGED <<text, cfg, parsed, cursors, drawn, ret, ncalls>>

\* unwritten._unstage(); return unwritten
UnstageReturn ==
    /\ pc = "line_returned"
    /\ unwritten' = unstage(unwritten)
    /\ pc' = "returned"
    /\ UNCHANGED <<text, cfg, parsed, cursors, drawn, ret, ncalls>>

Next ==
    \/ WriteParagraphCall
    \/ WriteLineStrCall
    \/ \E new_textbox \in BOOLEAN : WriteUnwrittenCall(new_textbox)
    \/ \E new_textbox \in BOOLEAN : ContinueParagraphCall(new_textbox)
    \/ ReturnWritten
    \/ ReturnReserved
    \/ StageNextLine
    \/ WriteLineCheck
    \/ DrawLine
    \/ NextLineCursor
    \/ SuccessfulWrite
    \/ UnstageReturn

Spec == InitPara /\ [][Next]_vars

\* The steps inside a write_paragraph call.
ParagraphStep ==
    \/ ReturnWritten
    \/ ReturnReserved
    \/ StageNextLine
    \/ WriteLineCheck
    \/ DrawLine
    \/ NextLineCursor
    \/ SuccessfulWrite
    \/ UnstageReturn

\* Texts with a word wider than the canvas.
OverlongTexts == {<<"x", "x", "x">>, <<"x", "x", "x", " ", "q">>, <<"x", "x", "x", "x", "x", " ", "x">>}

LiveTexts == WordTexts(MaxLiveWords) \cup OverlongTexts

InitLive ==
    /\ text \in LiveTexts
    /\ cfg \in [width : ParaWidths, height : ParaHeights,
                formatting : BOOLEAN, paragraph_indent : IndentChars,
                new_line_indent : {0}, justify : BOOLEAN,
                reserve_last_line : BOOLEAN, override_legal_check : BOOLEAN,
                cursor : {"text_cursor"}]
    /\ pc = "idle"
    /\ parsed = None
    /\ unwritten = NoQueue
    /\ cursors = InitCursors
    /\ drawn = <<>>
    /\ ret = None
    /\ ncalls = 0

\* A call that has started keeps running: the program is sequential and
\* nothing in the loop waits.
SpecLive == InitLive /\ [][Next]_vars /\ WF_vars(ParagraphStep)

\* The text of a line of the queue.
LineText(line) ==
    IF line.kind = "FLine" THEN simplify(line, FALSE) ELSE line.txt

Texts(lines) == [i \in 1..Len(lines) |-> LineText(lines[i])]

\* The texts of the lines drawn so far, in the order of the calls.
DrawnTexts == [i \in 1..Len(drawn) |-> drawn[i].txt]

\* The queue the first call wrapped the text into.
Wrapped ==
    wrap_text_TESTING(text, cfg.paragraph_indent, cfg.new_line_indent,
                      cfg.formatting, FALSE, cfg.width)

\* C1: whenever a write_paragraph call has returned its queue, whether it
\* was the first call on the text or a later one on a returned queue, on
\* the same TextBox or on a new one, the lines drawn by the calls so far,
\* in call order, followed by the lines still in the queue are the lines
\* the text was wrapped into, in order: none is drawn twice, none is lost.
ExactlyOnceAcrossResumption ==
    /\ pc \in {"loop", "returned", "raised"} =>
           DrawnTexts \o Texts(unwritten.lines) = Texts(Wrapped.lines)
    /\ pc \in {"loop", "returned"} =>
           unwritten.lines
               = SubSeq(Wrapped.lines, Len(drawn) + 1, Len(Wrapped.lines))

\* A third call has returned with lines left, after two calls drew lines.
ResumedAcrossCalls ==
    /\ pc = "returned"
    /\ remaining(unwritten) > 0
    /\ \E i, j \in DOMAIN drawn : drawn[i].call = 1 /\ drawn[j].call = 2
    /\ ncalls = 3

\* C2: when write_line rejects the line write_paragraph staged (the fit
\* check fails or the justification is illegal), the queue keeps exactly
\* the lines it held before the attempt, and write_paragraph returns it
\* with the attempted line at its front and nothing staged, in the queue
\* or in that line.
RejectedWriteLeavesQueueIntact ==
    [][/\ (pc = "staged" /\ pc' = "line_returned")
            => unwritten'.lines = unwritten.lines
       /\ pc = "line_returned"
            => /\ pc' = "returned"
               /\ unwritten'.lines = unwritten.lines
               /\ ret = Some(unwritten'.lines[1])
               /\ unwritten'.staged = None
               /\ unwritten'.lines[1].staged = None]_vars

\* A write was rejected after a line of the paragraph had been drawn.
RejectedAfterDrawing ==
    /\ pc = "returned"
    /\ ret # None
    /\ Len(drawn) > 0
    /\ remaining(unwritten) > 0

\* C18: continue_paragraph(unwritten) does what write_paragraph(unwritten)
\* does: every call made with a returned queue enters the write loop with
\* that queue, unwrapped and unchanged.
ContinueParagraphIsWriteParagraph ==
    [][(pc = "returned" /\ ncalls' = ncalls + 1)
          => (pc' = "loop" /\ unwritten' = unwritten)]_vars

\* C19: write_paragraph never raises: whatever the text, the options and
\* the canvas, a call ends by returning the queue.
WriteParagraphNeverRaises == pc # "raised"

\* The rough lines of the text.
RoughLines == rough_lines_of(text)

\* C11: a rough line without words, a whitespace-only one included, adds
\* no line to the packed queue, markup honored or not, and no packed line
\* is an indent followed by an empty word.
EmptyRoughLineYieldsNoLine ==
    pc = "wrapped" =>
        /\ \A i \in 1..Len(RoughLines) :
               strip(RoughLines[i], Whitespace) = <<>>
                   => LinesAfter(i) = LinesAfter(i - 1)
        /\ \A k \in 1..Len(unwritten.lines) :
               IF unwritten.lines[k].kind = "FLine"
               THEN ~(Len(unwritten.lines[k].fwords) = 2
                      /\ unwritten.lines[k].fwords[2].txt = <<>>)
               ELSE lstrip(unwritten.lines[k].txt, {" "}) # <<>>

\* The number of spaces a string starts with.
RECURSIVE LeadingSpaces(_)
LeadingSpaces(txt) ==
    IF txt = <<>> \/ Head(txt) # " " THEN 0 ELSE 1 + LeadingSpaces(Tail(txt))

\* The line starts with an indent of n spaces.
IndentIs(line, n) ==
    IF line.kind = "FLine" THEN line.fwords[1] = indent_fword(n)
    ELSE LeadingSpaces(line.txt) = n

\* No rough line of several words has an empty word (made by two spaces
\* in a row), so that the spaces a plain line starts with are its indent.
PlainWordsClean ==
    \A i \in 1..Len(RoughLines) :
        LET ws == flat_parse(strip(RoughLines[i], Whitespace))
        IN  Len(ws) > 1 => \A j \in 1..Len(ws) : ws[j].txt # <<>>

\* C12 as stated: the paragraph indent starts the first line made from the
\* first rough line of the input and no other line; every other line
\* starts with the new-line indent.
IndentByRoughLine ==
    (pc = "wrapped" /\ (cfg.formatting \/ PlainWordsClean)) =>
        \A k \in 1..Len(unwritten.lines) :
            IndentIs(unwritten.lines[k],
                     IF k = 1 /\ LinesAfter(1) >= 1
                     THEN cfg.paragraph_indent ELSE cfg.new_line_indent)

\* C12: the paragraph indent starts the first line of the packed queue,
\* whichever rough line it was made from; every other line, the first of
\* a later rough line or a wrapped continuation, starts with the new-line
\* indent.
IndentByPackedLine ==
    (pc = "wrapped" /\ (cfg.formatting \/ PlainWordsClean)) =>
        \A k \in 1..Len(unwritten.lines) :
            IndentIs(unwritten.lines[k],
                     IF k = 1 THEN cfg.paragraph_indent
                     ELSE cfg.new_line_indent)

\* The first rough line had no word; the two lines packed from the next
\* rough lines start with the paragraph indent and the new-line indent.
BlankFirstRoughLinePacked ==
    /\ pc = "wrapped"
    /\ cfg.formatting
    /\ cfg.paragraph_indent = 2
    /\ cfg.new_line_indent = 0
    /\ LinesAfter(1) = 0
    /\ Len(unwritten.lines) = 2
    /\ unwritten.lines[1].fwords[1] = indent_fword(2)
    /\ unwritten.lines[2].fwords[1] = indent_fword(0)

\* The words of a rough line that have text.
NormalizedWords(rough_line) ==
    SelectSeq(rough_line_fwords(rough_line, cfg.formatting,
                                cfg.discard_formatting),
              LAMBDA w : w.txt # <<>>)

\* The normalized text of each rough line that has words: its words
\* joined by single spaces.
RECURSIVE NormalizedTexts(_)
NormalizedTexts(rls) ==
    IF rls = <<>> THEN <<>>
    ELSE (IF NormalizedWords(Head(rls)) = <<>> THEN <<>>
          ELSE <<simplify_from(NormalizedWords(Head(rls)), 1, FALSE)>>)
         \o NormalizedTexts(Tail(rls))

\* No rough line was wrapped.
NoWrapping ==
    \A i \in 1..Len(RoughLines) : LinesAfter(i) - LinesAfter(i - 1) <= 1

\* C13: for a text packed without wrapping, simplify(exclude_indent=True)
\* of the queue is the normalized text of each rough line, without the
\* indent, for plain and styled queues and any indent.
RoundTripFlattening ==
    (pc = "wrapped" /\ NoWrapping) =>
        uw_simplify(unwritten, TRUE) = NormalizedTexts(RoughLines)

(***************************************************************************)
(* The cursors as a machine: a TextBox is made, then cursor operations and *)
(* line writes are called on it, each with a cursor name.  pc is the       *)
(* operation last called and the cursor name it was given.                 *)
(***************************************************************************)
CursorHeights == {7, 8, 18, 30}

CursorCoords == {<<0, 0>>, <<15, 10>>, <<0, 22>>}

CursorDeltas == {<<10, 0>>, <<30, 9>>}

CursorTexts == {<<"x">>, <<"x", " ", "q">>}

InitCursor ==
    /\ text \in CursorTexts
    /\ cfg \in [width : {40}, height : CursorHeights]
    /\ pc = [op |-> "init", cursor |-> "text_cursor"]
    /\ parsed = None
    /\ unwritten = NoQueue
    /\ cursors = InitCursors
    /\ drawn = <<>>
    /\ ret = None
    /\ ncalls = 0

SetCursorCall(coord, cursor) ==
    /\ ncalls < MaxCursorOps
    /\ cursors' = set_cursor(cursors, coord, cursor)
    /\ pc' = [op |-> "set_cursor", cursor |-> cursor]
    /\ ncalls' = ncalls + 1
    /\ UNCHANGED <<text, cfg, parsed, unwritten, drawn, ret>>

ResetCursorCall(cursor) ==
    /\ ncalls < MaxCursorOps
    /\ cursors' = reset_cursor(cursors, cursor)
    /\ pc' = [op |-> "reset_cursor", cursor |-> cursor]
    /\ ncalls' = ncalls + 1
    /\ UNCHANGED <<text, cfg, parsed, unwritten, drawn, ret>>

UpdateCursorCall(xy_delta, cursor, commit) ==
    /\ ncalls < MaxCursorOps
    /\ cursors' = update_cursor(cursors, xy_delta, cursor, commit)
    /\ pc' = [op |-> "update_cursor", cursor |-> cursor]
    /\ ncalls' = ncalls + 1
    /\ UNCHANGED <<text, cfg, parsed, unwritten, drawn, ret>>

SameLineCursorCall(xy_delta, cursor, commit, add_space, prevent_linebreak) ==
    /\ ncalls < MaxCursorOps
    /\ cursors' = same_line_cursor(cursors, xy_delta, cursor, commit,
                                   add_space, prevent_linebreak, cfg.width,
                                   Spacing)
    /\ pc' = [op |-> "same_line_cursor", cursor |-> cursor]
    /\ ncalls' = ncalls + 1
    /\ UNCHANGED <<text, cfg, parsed, unwritten, drawn, ret>>

NextLineCursorCall(cursor, commit) ==
    /\ ncalls < MaxCursorOps
    /\ cursors' = next_line_cursor_commit(cursors, cursor, commit, Spacing)
    /\ pc' = [op |-> "next_line_cursor", cursor |-> cursor]
    /\ ncalls' = ncalls + 1
    /\ UNCHANGED <<text, cfg, parsed, unwritten, drawn, ret>>

\* write_line(text, cursor=cursor, formatting=formatting)
WriteLineAtCall(cursor, formatting) ==
    /\ ncalls < MaxCursorOps
    /\ LET r == write_line(parse_into_line(text, formatting, TRUE, FALSE),
                           cursors, cursor, FALSE, FALSE, None, FALSE,
                           cfg.width, cfg.height, Spacing)
       IN  /\ drawn' = IF r.outcome = "written"
                        THEN Append(drawn, DrawnLine(r, cursor, ncalls + 1))
                        ELSE drawn
           /\ cursors' = IF r.outcome = "written"
                          THEN next_line_cursor(cursors, cursor, Spacing)
                          ELSE cursors
           /\ ret' = IF r.outcome = "returned" THEN Some(r.line) ELSE None
    /\ pc' = [op |-> "write_line", cursor |-> cursor]
    /\ ncalls' = ncalls + 1
    /\ UNCHANGED <<text, cfg, parsed, unwritten>>

NextCursor ==
    \/ \E coord \in CursorCoords, cursor \in CursorNames :
           SetCursorCall(coord, cursor)
    \/ \E cursor \in CursorNames : ResetCursorCall(cursor)
    \/ \E xy_delta \in CursorDeltas, cursor \in CursorNames, commit \in BOOLEAN :
           UpdateCursorCall(xy_delta, cursor, commit)
    \/ \E xy_delta \in CursorDeltas, cursor \in CursorNames,
          commit, add_space, prevent_linebreak \in BOOLEAN :
           SameLineCursorCall(xy_delta, cursor, commit, add_space,
                              prevent_linebreak)
    \/ \E cursor \in CursorNames, commit \in BOOLEAN :
           NextLineCursorCall(cursor, commit)
    \/ \E cursor \in CursorNames, formatting \in BOOLEAN :
           WriteLineAtCall(cursor, formatting)

SpecCursor == InitCursor /\ [][NextCursor]_vars

\* The y of the coord a cursor name reads as.
CursorY(cursor) == get_cursor(cursors, cursor)[2]

CursorIndependence ==
    [][\A b \in CursorNames \ {pc'.cursor} : cursors'[b] = cursors[b]]_vars

\* A line was written at margin_cursor, which moved, after text_cursor
\* had been moved elsewhere.
WroteAtOtherCursor ==
    /\ pc = [op |-> "write_line", cursor |-> "margin_cursor"]
    /\ ret = None
    /\ cursors["text_cursor"] = <<15, 10>>
    /\ cursors["margin_cursor"] = <<0, 20>>

\* The lines the current write_paragraph call has drawn.
DrawnInCall == SelectSeq(drawn, LAMBDA d : d.call = ncalls)

\* After k lines committed by the current call the cursor is at x = 0 and
\* k * (line_height + spacing) below where the first of them was drawn.
CursorAfterCommits ==
    DrawnInCall # <<>> =>
        get_cursor(cursors, cfg.cursor)
            = <<0, DrawnInCall[1].calls[1].xy[2]
                   + Len(DrawnInCall) * (text_line_height + Spacing)>>

\* C16: in write_paragraph a line that was found legal is drawn, then the
\* cursor is moved to x = 0 and y + line_height + spacing, then that front
\* line is popped, and only then is the next line staged; no line is popped
\* unless it was drawn last, and after k commits the cursor is k *
\* (line_height + spacing) lower.
CommitStepOrdering ==
    [][/\ pc = "legal"
            => /\ pc' = "drawn"
               /\ Len(drawn') = Len(drawn) + 1
               /\ UNCHANGED <<unwritten, cursors>>
       /\ pc = "drawn"
            => /\ pc' = "line_written"
               /\ cursors'[cfg.cursor]
                     = <<0, get_cursor(cursors, cfg.cursor)[2]
                            + text_line_height + Spacing>>
               /\ UNCHANGED <<unwritten, drawn>>
       /\ pc = "line_written"
            => /\ pc' = "loop"
               /\ unwritten'.lines = Tail(unwritten.lines)
               /\ UNCHANGED <<cursors, drawn>>
       /\ Len(unwritten'.lines) < Len(unwritten.lines)
            => /\ pc = "line_written"
               /\ drawn[Len(drawn)].txt = LineText(unwritten.lines[1])
       /\ (unwritten.staged = None /\ unwritten'.staged # None)
            => pc = "loop"
       /\ pc' = "loop" => CursorAfterCommits']_vars

\* Two lines were committed by one call, which is about to stage a third.
TwoLinesCommitted ==
    /\ pc = "loop"
    /\ Len(DrawnInCall) = 2
    /\ remaining(unwritten) > 0
    /\ cursors[cfg.cursor] = <<0, 20>>

\* C15: with reserve_last_line and without override_legal_check, no line
\* is drawn while on_last_line is true, a cursor that had a line left
\* still has one after every step, and when on_last_line is true
\* write_paragraph returns its queue and write_line its line untouched,
\* no write attempted.
LastLineReserved ==
    [][(cfg.reserve_last_line /\ ~cfg.override_legal_check) =>
          /\ Len(drawn') > Len(drawn)
                => ~on_last_line(cursors, cfg.cursor, cfg.height, Spacing)
          /\ lines_left(cursors, cfg.cursor, cfg.height, Spacing) >= 1
                => lines_left(cursors', cfg.cursor, cfg.height, Spacing) >= 1
          /\ (pc = "loop"
                /\ on_last_line(cursors, cfg.cursor, cfg.height, Spacing))
                => (pc' = "returned" /\ UNCHANGED <<unwritten, drawn, cursors>>)
          /\ (pc = "idle" /\ pc' # "loop"
                /\ on_last_line(cursors, cfg.cursor, cfg.height, Spacing))
                => (pc' = "str_returned" /\ ret' = Some(ParaLineOfText)
                    /\ UNCHANGED <<drawn, cursors>>)]_vars

\* write_paragraph returned because the last line is reserved, after it
\* drew on the lines before it.
ReturnedOnReservedLine ==
    /\ pc = "returned"
    /\ cfg.reserve_last_line
    /\ ~cfg.override_legal_check
    /\ ret = None
    /\ Len(drawn) = 2
    /\ remaining(unwritten) > 0
    /\ on_last_line(cursors, cfg.cursor, cfg.height, Spacing)

\* C20: a str is written justified exactly when justify is set, a PLine
\* or FLine exactly when justify is set and the line is justifiable; a
\* line that is not written is returned, as the object passed or as the
\* line the str was parsed into, and None is returned for a written line.
WriteLineGating ==
    [][/\ (pc = "idle" /\ pc' # "loop")
            => IF Len(drawn') > Len(drawn)
               THEN /\ ret' = None
                    /\ drawn'[Len(drawn')].justify = cfg.justify
               ELSE ret' = Some(ParaLineOfText)
       /\ pc = "staged"
            => \/ pc' = "legal" /\ ret' = None
               \/ pc' = "line_returned" /\ ret' = Some(unwritten.lines[1])
       /\ pc = "legal"
            => drawn'[Len(drawn')].justify
                   = (cfg.justify /\ unwritten.lines[1].justifiable)]_vars

(***************************************************************************)
(* Font configuration: set_truetype_font.  In this specification cfg holds *)
(* the font attributes of the TextBox and pc the last call with its        *)
(* arguments and outcome.                                                  *)
(***************************************************************************)

\* ImageFont.load_default() and ImageFont.truetype(typeface, size)
load_default == <<"default", 0>>
truetype(typeface, size) == <<typeface, size>>

FormattingNames == {"main", "bold", "ital", "boldital"}

\* An RGBA argument: whether it is a tuple, whether every value is an
\* int, and the values.
RGBAValue(is_tuple, all_int, vals) == [is_tuple |-> is_tuple, all_int |-> all_int, vals |-> vals]

Black == RGBAValue(TRUE, TRUE, <<0, 0, 0, 255>>)
Red == RGBAValue(TRUE, TRUE, <<255, 0, 0, 255>>)

\* The tests set_truetype_font makes on an RGBA that is not None.
rgba_error(RGBA) ==
    IF ~RGBA.is_tuple THEN "TypeError"
    ELSE IF Len(RGBA.vals) # 4 THEN "ValueError"
    ELSE IF ~RGBA.all_int THEN "TypeError"
    ELSE IF \E i \in 1..Len(RGBA.vals) : RGBA.vals[i] < 0 \/ RGBA.vals[i] > 255 THEN "ValueError"
    ELSE "none"

FontResult(outcome, tb) == [outcome |-> outcome, tb |-> tb]

\* The part of set_truetype_font after the RGBA has been handled.
set_truetype_font_face(tb, size, typeface, formatting) ==
    IF typeface = None /\ size = None THEN FontResult("returned", tb)
    ELSE LET tf == IF typeface = None THEN tb.typeface ELSE typeface
         IN IF tf = None
            THEN FontResult("returned", [tb EXCEPT !.font = load_default])
            ELSE LET sz == IF size = None THEN tb.font_size ELSE size[1]
                     f == truetype(tf[1], sz)
                 IN IF formatting \notin FormattingNames
                    THEN FontResult("raised", tb)
                    ELSE LET t1 == [tb EXCEPT !.formatted_fonts[formatting] = Some(f)]
                         IN IF formatting = "main"
                            THEN FontResult("returned", [t1 EXCEPT !.font = f, !.font_size = sz, !.typeface = tf])
                            ELSE FontResult("returned", t1)

set_truetype_font(tb, size, typeface, RGBA, formatting) ==
    IF RGBA # None /\ rgba_error(RGBA[1]) # "none"
    THEN FontResult("raised", tb)
    ELSE LET t0 == IF RGBA = None THEN tb ELSE [tb EXCEPT !.font_RGBA = RGBA[1].vals]
         IN set_truetype_font_face(t0, size, typeface, formatting)

FontArgs(size, typeface, RGBA, formatting) == [size |-> size, typeface |-> typeface, RGBA |-> RGBA, formatting |-> formatting]

SizeArgs == {None, Some(10)}
TypefaceArgs == {None, Some("b.ttf")}
RGBAArgs == {None, Some(Red), Some(Black), Some(RGBAValue(TRUE, TRUE, <<1, 2, 3>>)), Some(RGBAValue(TRUE, TRUE, <<0, 0, 0, 256>>)), Some(RGBAValue(TRUE, TRUE, <<0, 0 - 1, 0, 255>>)), Some(RGBAValue(FALSE, TRUE, <<255, 0, 0, 255>>)), Some(RGBAValue(TRUE, FALSE, <<255, 0, 0, 255>>))}
FormattingArgs == FormattingNames \cup {"bogus"}

\* The attributes __init__ sets before it configures the font.
NewTextBoxFonts(typeface) == [font |-> load_default, font_RGBA |-> Black.vals, font_size |-> 12, typeface |-> typeface, formatted_fonts |-> [n \in FormattingNames |-> IF n = "main" THEN Some(load_default) ELSE None]]

InitFont ==
    /\ \E typeface \in {None, Some("a.ttf")} :
          /\ cfg = IF typeface = None
                   THEN NewTextBoxFonts(typeface)
                   ELSE set_truetype_font(NewTextBoxFonts(typeface), Some(12), typeface, None, "main").tb
          /\ pc = [op |-> "init", outcome |-> "returned", args |-> FontArgs(Some(12), typeface, None, "main")]
    /\ text = <<>>
    /\ parsed = None
    /\ unwritten = NoQueue
    /\ cursors = InitCursors
    /\ drawn = <<>>
    /\ ret = None
    /\ ncalls = 0

SetTruetypeFontCall(size, typeface, RGBA, formatting) ==
    /\ ncalls < MaxFontCalls
    /\ LET r == set_truetype_font(cfg, size, typeface, RGBA, formatting)
       IN /\ cfg' = r.tb
          /\ pc' = [op |-> "set_truetype_font", outcome |-> r.outcome, args |-> FontArgs(size, typeface, RGBA, formatting)]
    /\ ncalls' = ncalls + 1
    /\ UNCHANGED <<text, parsed, unwritten, cursors, drawn, ret>>

NextFont ==
    \E size \in SizeArgs, typeface \in TypefaceArgs, RGBA \in RGBAArgs, formatting \in FormattingArgs :
        SetTruetypeFontCall(size, typeface, RGBA, formatting)

SpecFont == InitFont /\ [][NextFont]_vars

InvalidRGBA(RGBA) == RGBA # None /\ rgba_error(RGBA[1]) # "none"

\* C21: a call to set_truetype_font whose formatting is not 'main',
\* 'bold', 'ital' or 'boldital', or whose RGBA is not a 4-tuple of ints
\* in 0..255, raises, whatever the other arguments are; and a call that
\* raises leaves font, font_RGBA, font_size, typeface and formatted_fonts
\* as they were.
ConfigurationErrorsFailFast ==
    [][/\ (pc'.args.formatting \notin FormattingNames \/ InvalidRGBA(pc'.args.RGBA))
            => pc'.outcome = "raised"
       /\ pc'.outcome = "raised" => cfg' = cfg]_vars

\* The part of C21 about the RGBA alone: an invalid RGBA raises and
\* changes nothing.
InvalidRGBARaisesUnchanged ==
    [][InvalidRGBA(pc'.args.RGBA) => (pc'.outcome = "raised" /\ cfg' = cfg)]_vars

(***************************************************************************)
(* The packed lines as word sequences.                                     *)
(***************************************************************************)

\* The number of indent spaces the packer puts before the k-th line of a
\* plain queue (every rough line of a plain text has a word).
PlainIndentLen(k) == IF k = 1 THEN cfg.paragraph_indent ELSE cfg.new_line_indent

\* The words the k-th packed line was made of, the indent first: the
\* fwords of an FLine; for a PLine the indent and the words its text
\* joins with single spaces.
PackedFWords(k) ==
    LET line == unwritten.lines[k]
    IN  IF line.kind = "FLine" THEN line.fwords
        ELSE <<indent_fword(PlainIndentLen(k))>>
                 \o flat_parse(SubSeq(line.txt, PlainIndentLen(k) + 1, Len(line.txt)))

\* The sum of the word widths, indent included, plus one space width per
\* gap between content words.
GapNaturalW(fwords) == sum_word_w(fwords) + space_w * (Len(fwords) - 2)

InCall == {"loop", "staged", "legal", "drawn", "line_written", "line_returned"}

CallEnded == {"returned", "raised"}

\* C23: the packer ends on every text, a single word wider than the canvas
\* included, and every write_paragraph call ends: a pass of the write loop
\* that comes back to the head of the loop has taken exactly one line out
\* of the queue, and every call that has started reaches its end.
WriteParagraphTerminates ==
    /\ [][(pc \in InCall /\ pc' = "loop")
             => remaining(unwritten') = remaining(unwritten) - 1]_vars
    /\ (pc \in InCall) ~> (pc \in CallEnded)

\* A call that wrote the whole queue, one line of it wider than the canvas.
OverlongWordParagraphEnded ==
    /\ pc = "returned"
    /\ remaining(unwritten) = 0
    /\ Len(drawn) >= 2
    /\ \E i \in 1..Len(drawn) : textsize_w(drawn[i].txt, FALSE) > cfg.width

(***************************************************************************)
(* Staging a line: FLine._stage / _unstage and PLine._stage / _unstage.    *)
(* In this specification parsed holds the line object and ret what the     *)
(* last call returned.                                                     *)
(***************************************************************************)

\* A slip: the indent is inserted into the list of the line itself
\* (self.staged = self.fwords, without the copy).
line_stage_in_place(line, indent) ==
    IF line.kind = "FLine"
    THEN [line EXCEPT !.staged = Some(fline_stage(line, indent)), !.fwords = fline_stage(line, indent)]
    ELSE [line EXCEPT !.staged = Some(pline_stage(line, indent)), !.txt = pline_stage(line, indent)]

\* line._stage(indent): the line object after the call.
line_stage(line, indent) ==
    IF line.kind = "FLine"
    THEN [line EXCEPT !.staged = Some(fline_stage(line, indent))]
    ELSE [line EXCEPT !.staged = Some(pline_stage(line, indent))]

\* The indent strings given to _stage.
StageIndents == {None, Some(spaces(0)), Some(spaces(2)), Some(spaces(4))}

InitStage ==
    /\ text \in LineTexts
    /\ cfg \in [formatting : BOOLEAN]
    /\ parsed = parse_into_line(text, cfg.formatting, TRUE, FALSE)
    /\ pc = [op |-> "init", indent |-> None, was_staged |-> FALSE]
    /\ unwritten = NoQueue
    /\ cursors = InitCursors
    /\ drawn = <<>>
    /\ ret = None
    /\ ncalls = 0

\* line._stage(indent); pc keeps the call and whether the line was staged
\* when it was made.
StageCall(indent) ==
    /\ ncalls < MaxStageOps
    /\ parsed' = line_stage(parsed, indent)
    /\ ret' = line_stage(parsed, indent).staged
    /\ pc' = [op |-> "_stage", indent |-> indent, was_staged |-> parsed.staged # None]
    /\ ncalls' = ncalls + 1
    /\ UNCHANGED <<text, cfg, unwritten, cursors, drawn>>

\* line._unstage()
UnstageCall ==
    /\ ncalls < MaxStageOps
    /\ parsed' = line_unstage(parsed)
    /\ ret' = None
    /\ pc' = [op |-> "_unstage", indent |-> None, was_staged |-> parsed.staged # None]
    /\ ncalls' = ncalls + 1
    /\ UNCHANGED <<text, cfg, unwritten, cursors, drawn>>

NextStage ==
    \/ \E indent \in StageIndents : StageCall(indent)
    \/ UnstageCall

SpecStage == InitStage /\ [][NextStage]_vars

\* The committed content of a line: the fwords of an FLine, the txt of a
\* PLine.
Committed(line) == IF line.kind = "FLine" THEN line.fwords ELSE line.txt

\* The length of what _stage(indent) adds in front of the content.
IndentLen(line, indent) ==
    IF indent = None THEN 0
    ELSE IF line.kind = "FLine" THEN 1 ELSE Len(indent[1])

\* C24: _stage and _unstage never change the fwords of an FLine or the txt
\* of a PLine; _unstage resets staged to None; and the staged content after
\* _stage(indent) is the committed content with that one indent in front,
\* whatever was staged before.
StagingKeepsCommitted ==
    [][/\ Committed(parsed') = Committed(parsed)
       /\ Committed(parsed') = Committed(parse_into_line(text, cfg.formatting, TRUE, FALSE))
       /\ pc'.op = "_unstage" => parsed'.staged = None
       /\ pc'.op = "_stage" =>
              /\ parsed'.staged # None
              /\ ret' = parsed'.staged
              /\ Len(parsed'.staged[1]) = Len(Committed(parsed)) + IndentLen(parsed, pc'.indent)
              /\ SubSeq(parsed'.staged[1], IndentLen(parsed, pc'.indent) + 1, Len(parsed'.staged[1])) = Committed(parsed)]_vars

\* A line that was already staged is staged again, with an indent of two
\* spaces.
StagedAgainWithIndent ==
    /\ pc.op = "_stage"
    /\ pc.was_staged
    /\ pc.indent = Some(spaces(2))
    /\ Committed(parsed) # <<>>
    /\ Len(parsed.staged[1]) > Len(Committed(parsed))

\* C25: whenever write_line returns the line as not written, on the plain
\* or the styled path, justified or not, nothing was drawn and no cursor
\* has moved, the one used or any other.
RejectedWriteLeavesCanvas ==
    [][/\ (pc' = "returned") <=> (ret' # None)
       /\ ret' # None => (drawn' = drawn /\ cursors' = cursors)]_vars

\* A line is returned by the second call, after the first call drew one.
ReturnedAfterOneDrawn ==
    /\ pc = "returned"
    /\ ret # None
    /\ ncalls = 2
    /\ Len(drawn) = 1
    /\ cursors["text_cursor"] = <<0, text_line_height + Spacing>>

\* The content words of the packed lines, in line order.
RECURSIVE PackedContentWords(_)
PackedContentWords(k) ==
    IF k > Len(unwritten.lines) THEN <<>>
    ELSE Tail(PackedFWords(k)) \o PackedContentWords(k + 1)

\* The words the parser makes of each rough line, in order.
RECURSIVE RoughLineWords(_)
RoughLineWords(rls) ==
    IF rls = <<>> THEN <<>>
    ELSE rough_line_fwords(Head(rls), cfg.formatting, cfg.discard_formatting)
             \o RoughLineWords(Tail(rls))

\* C26: the content words of the packed lines, indents removed and taken
\* in line order, are exactly the words parsed from the rough lines in
\* order, so every parsed word is in exactly one line; and every packed
\* line holds at least one content word.
WordConservation ==
    pc = "wrapped" =>
        /\ PackedContentWords(1) = RoughLineWords(rough_lines_of(text))
        /\ \A k \in 1..Len(unwritten.lines) :
               /\ Len(PackedFWords(k)) >= 2
               /\ new_line(PackedFWords(k), unwritten.lines[k].justifiable, cfg.formatting) = unwritten.lines[k]

\* Two rough lines packed into three lines: the first one wraps.
TwoRoughLinesThreeLines ==
    /\ pc = "wrapped"
    /\ Len(rough_lines_of(text)) = 2
    /\ Len(unwritten.lines) = 3
    /\ Len(PackedContentWords(1)) = 4
    /\ unwritten.lines[1].justifiable

\* The staged line of write_paragraph has no word wider than the canvas.
WordsFitCanvas(line) ==
    LET fw == IF line.kind = "FLine" THEN line.fwords ELSE flat_parse(line.txt)
    IN  \A i \in 1..Len(fw) : word_w(fw[i]) <= cfg.width

\* The staged line fits the height left under the cursor.
HeightFits(line) ==
    LET fw == IF line.kind = "FLine" THEN line.fwords ELSE flat_parse(line.txt)
    IN  get_cursor(cursors, cfg.cursor)[2] + max_word_h(fw) <= cfg.height

\* C27: a line the packer marked justifiable, with no word wider than the
\* canvas, is written by write_line with justify=True at the packing width
\* when the cursor is at x = 0 and the height suffices: it is neither
\* returned nor does the call raise, on the styled and on the plain path;
\* so a justified write_paragraph on a canvas that is tall enough returns
\* an empty queue.
JustifiableLinesAreWritable ==
    [][(/\ pc = "staged"
        /\ cfg.justify
        /\ ~cfg.reserve_last_line
        /\ unwritten.lines[1].justifiable
        /\ WordsFitCanvas(unwritten.lines[1])
        /\ HeightFits(unwritten.lines[1])
        /\ get_cursor(cursors, cfg.cursor)[1] = 0)
          => pc' = "legal"]_vars

\* C28: without override_legal_check no written line extends past the
\* right edge of the canvas: for a write at cursor (x, y), every word
\* drawn ends at or before the canvas width, for any x >= 0, on the plain
\* and on the styled path.
WrittenLinesStayInsideWidth ==
    \A i \in 1..Len(drawn) :
        \A j \in 1..Len(drawn[i].calls) :
            drawn[i].calls[j].xy[1]
                + textsize_w(drawn[i].calls[j].txt, drawn[i].calls[j].bold)
                    <= cfg.width

\* C29: without override_legal_check a line is written only when
\* lines_left at the cursor was at least 1 before the write, whatever the
\* measured heights of its words: while is_exhausted holds the next write
\* is rejected, and write_paragraph commits no more lines than lines_left.
WriteNeedsALineLeft ==
    [][(Len(drawn') > Len(drawn) /\ ~cfg.override_legal_check)
           => /\ lines_left(cursors, cfg.cursor, cfg.height, Spacing) >= 1
              /\ ~is_exhausted(cursors, cfg.cursor, cfg.height, Spacing)]_vars

\* The draw calls of a drawn line that hold a content word: not the indent
\* and not the empty words a converted plain indent is made of.
ContentCalls(d) ==
    {j \in 1..Len(d.calls) : \E n \in 1..Len(d.calls[j].txt) : d.calls[j].txt[n] # " "}

\* The first line of a write_paragraph call, drawn justified and with a
\* paragraph indent in front of its content.
JustifiedIndentedLine(d) ==
    /\ d.call >= 1
    /\ d.justify
    /\ cfg.paragraph_indent > 0
    /\ ContentCalls(d) # {}

\* C30: when a packed line with an indent is written justified, its first
\* content word is drawn at x = the width of the indent string and the
\* slack goes only into the gaps between content words, for plain queues
\* (the PLine converted with to_fline) as for styled ones.
JustifiedIndentNotStretched ==
    (Len(drawn) >= 1 /\ JustifiedIndentedLine(drawn[1])) =>
        LET d == drawn[1]
            first == CHOOSE j \in ContentCalls(d) : \A k \in ContentCalls(d) : j <= k
        IN  /\ d.calls[first].xy[1] = textsize_w(spaces(cfg.paragraph_indent), FALSE)
            /\ Len(d.gaps) = Cardinality(ContentCalls(d)) - 1

====
